---------------------------- MODULE Spec2Model ----------------------------
(***************************************************************************)
(* Change detection and versioning of the funding-program monitor:         *)
(*   foerdermittel/foerdermittel_scraper.py   (scan, classify, save, sweep)*)
(*   foerdermittel/foerdermittel_analyzer.py  (extraction, reconcile)      *)
(*   shared/directus_client.py                (backend client, hashing)    *)
(*                                                                         *)
(* Time is the wall clock read by datetime.now(), counted in ticks of      *)
(* 1/TicksPerDay day.  A run of the scraper or of the analyzer takes       *)
(* minutes, so the clock advances between runs; two runs with no tick      *)
(* between them read the same instant.                                     *)
(***************************************************************************)
EXTENDS Integers, Sequences, FiniteSets, TLC

(***************************************************************************)
(* Bounds of the model.                                                    *)
(***************************************************************************)
NumUrls == 2
NumContents == 2
NumTitles == 2
NumDescriptions == 2
ShortTime == 1
LateTicks == 2
MaxWeeks == 2
MaxCheck == 3
MaxRecs == 3
MaxPublished == 1
MaxSections == 2
NumValues == 2

(***************************************************************************)
(* Program constants.                                                      *)
(***************************************************************************)
SAFETY_BUFFER_DAYS == 7
UNPARSEABLE_DAYS == 999
TicksPerDay == 2
DEFAULT_LIMIT == 10
MAX_AGE_HOURS == 168

None == -1

\* The instants the clock is read at after the sleep: QuietTo .. MaxTime.
QuietTo == (SAFETY_BUFFER_DAYS - 1) * TicksPerDay
MaxTime == QuietTo + LateTicks

\* The cadence of the monitoring runs (foerdermittel_monitor.py: run weekly).
WEEK == 7 * TicksPerDay

Urls == 1..NumUrls
Contents == 1..NumContents
Sources == {"s1", "s2"}

\* The configured sources: s1 is a listing of type dsee (rss behaves the same),
\* s2 a listing handled by the generic branch of scrape_source.
\* s3 is a source of type aktion_mensch, whose programs are sections of one page.
SourceType(s) ==
    IF s = "s1" THEN "dsee" ELSE IF s = "s3" THEN "aktion_mensch" ELSE "generic"

\* The pages a source's listing can link to: s1 can link every page, s2 the
\* last one (a page two listings link to is tracked under the url alone).
SourceUrls(s) == IF s \in {"s1", "s3"} THEN Urls ELSE {u \in Urls : u = NumUrls}

VARIABLES
    now,        \* the wall clock, in ticks
    docs,       \* collection foerdermittel_scraped_data: Seq of records, id = index
    recs,       \* collection foerdermittel: Seq of records, id = index
    pc,         \* "idle", "scan" (scrape_source loop), "pending" / "updates" (analyzer main loops)
    source,     \* scrape_source: the source being scanned
    todo,       \* scrape_source: program_urls not yet processed
    seen_urls,  \* scrape_source: urls tracked in this scrape
    dry_run,    \* analyzer: args.dry_run of the run in progress
    url_cache,  \* scraper: the page cache (url_cache), url -> entry, kept in a file between runs
    items,      \* analyzer: ids of the fetched pending / pending_update items still to process
    http,       \* client: the backend call in progress (attempts made, logins, outcome)
    listed,     \* scrape_source: the urls the source's listing shows in the scan in progress
    cache_file, \* URLCache: the entries in the cache file as last written (followed in the specification of the cache alone)
    ev          \* what the last step did (observation only; no action reads it)

vars == <<now, docs, recs, pc, source, todo, seen_urls, dry_run, items, url_cache, http, listed, cache_file, ev>>

DocIds == 1..Len(docs)
RecIds == 1..Len(recs)

NoEvent == [op |-> "none"]

(***************************************************************************)
(* shared/directus_client.py                                               *)
(***************************************************************************)

\* SHA-256 of the JSON of program_data (url, source_name, content,
\* scraped_at): collision free on the modelled domain, so an injective
\* numbering of the data.
calculate_content_hash(program_data) ==
    ((program_data.scraped_at * (NumContents + 1) + program_data.content) * (NumUrls + 1)
        + program_data.url) * 3
        + (IF program_data.source_name = "s1" THEN 0
           ELSE IF program_data.source_name = "s2" THEN 1 ELSE 2)

\* DirectusClient.get_item_by_url: the first item of the collection with this url, or None.
get_item_by_url(collection, url) ==
    IF \E i \in DOMAIN collection : collection[i].url = url
    THEN CHOOSE i \in DOMAIN collection :
            /\ collection[i].url = url
            /\ \A j \in DOMAIN collection : collection[j].url = url => i <= j
    ELSE None

\* DirectusClient.get_item_by_hash: the first item of the collection with this
\* content_hash, None when there is none and when the read fails.
get_item_by_hash(collection, content_hash, read_ok) ==
    IF read_ok /\ \E i \in DOMAIN collection : collection[i].content_hash = content_hash
    THEN CHOOSE i \in DOMAIN collection :
            /\ collection[i].content_hash = content_hash
            /\ \A j \in DOMAIN collection : collection[j].content_hash = content_hash => i <= j
    ELSE None

\* DirectusClient.get_active_programs: the ids of the active items of a source.
get_active_programs(collection, source_name) ==
    {i \in DOMAIN collection :
        collection[i].source_name = source_name /\ collection[i].is_active}

\* DirectusClient.update_item: PATCH, only the given fields change.
update_item(collection, item_id, data) ==
    [collection EXCEPT ![item_id] =
        [f \in DOMAIN @ |-> IF f \in DOMAIN data THEN data[f] ELSE @[f]]]

\* URLCache: an entry holds the content cached and the instant it was cached
\* at; NoEntry stands for a url the cache has no entry for.
NoEntry == [content |-> None, timestamp |-> None]

\* An entry that expires when its age reaches max_age_seconds.
ExpiredAtMaxAge(entry) == (now - entry.timestamp) * 24 >= MAX_AGE_HOURS * TicksPerDay

\* URLCache: the entry is older than max_age_seconds.
Expired(entry) == (now - entry.timestamp) * 24 > MAX_AGE_HOURS * TicksPerDay

\* URLCache._clean_expired, run when the cache file is loaded.
URLCache_clean_expired(cache) ==
    [u \in DOMAIN cache |->
        IF cache[u] # NoEntry /\ Expired(cache[u]) THEN NoEntry ELSE cache[u]]

\* URLCache.get: the content cached for the url, None when there is no entry
\* or it has expired (the expired entry is deleted); and the cache after it.
URLCache_get(cache, url) ==
    IF cache[url] = NoEntry THEN [content |-> None, cache |-> cache]
    ELSE IF Expired(cache[url])
    THEN [content |-> None, cache |-> [cache EXCEPT ![url] = NoEntry]]
    ELSE [content |-> cache[url].content, cache |-> cache]

\* URLCache.set.
URLCache_set(cache, url, content) ==
    [cache EXCEPT ![url] = [content |-> content, timestamp |-> now]]

\* URLCache.clear.
URLCache_clear(cache) == [u \in DOMAIN cache |-> NoEntry]

\* URLCache.__init__: the cache file is loaded and the expired entries are
\* dropped; the cache starts empty when there is no file or the load fails.
CacheLoad ==
    /\ pc = "idle"
    /\ \E loaded \in BOOLEAN :
        /\ url_cache' = IF loaded THEN URLCache_clean_expired(cache_file)
                        ELSE [u \in Urls |-> NoEntry]
        /\ ev' = [op |-> "cache_load", loaded |-> loaded]
    /\ UNCHANGED <<now, docs, recs, pc, source, todo, seen_urls, dry_run, items, http, listed,
                   cache_file>>

\* URLCache.get(url).
CacheGet ==
    /\ pc = "idle"
    /\ \E url \in Urls :
        /\ url_cache' = URLCache_get(url_cache, url).cache
        /\ ev' = [op |-> "cache_get", url |-> url,
                  content |-> URLCache_get(url_cache, url).content]
    /\ UNCHANGED <<now, docs, recs, pc, source, todo, seen_urls, dry_run, items, http, listed,
                   cache_file>>

\* URLCache.set(url, content): the entry is written and the whole cache is
\* dumped to the file; an error of the dump is logged and the file stays.
CacheSet ==
    /\ pc = "idle"
    /\ \E url \in Urls, content \in Contents, saved \in BOOLEAN :
        /\ url_cache' = URLCache_set(url_cache, url, content)
        /\ cache_file' = IF saved THEN URLCache_set(url_cache, url, content) ELSE cache_file
        /\ ev' = [op |-> "cache_set", url |-> url, content |-> content, saved |-> saved]
    /\ UNCHANGED <<now, docs, recs, pc, source, todo, seen_urls, dry_run, items, http, listed>>

\* URLCache.clear: the cache is emptied and the file removed; an error of
\* the removal is logged and the file stays.
CacheClear ==
    /\ pc = "idle"
    /\ \E removed \in BOOLEAN :
        /\ url_cache' = URLCache_clear(url_cache)
        /\ cache_file' = IF removed THEN [u \in Urls |-> NoEntry] ELSE cache_file
        /\ ev' = [op |-> "cache_clear", removed |-> removed]
    /\ UNCHANGED <<now, docs, recs, pc, source, todo, seen_urls, dry_run, items, http, listed>>

\* DirectusClient: the calls of the client that send a request to the backend.
Methods == {"create_item", "get_item_by_hash", "update_item", "get_pending_items"}

\* The status codes a response carries; NetworkError stands for a request that
\* raises instead of returning a response.
NetworkError == 0
HttpStatuses == {200, 401, 403, 404, 500}
Responses == HttpStatuses \cup {NetworkError}

\* No call in progress.
NoCall ==
    [phase |-> "idle", method |-> "none", static_token |-> FALSE, responses |-> <<>>,
     logins |-> 0, auth_requests |-> 0, outcome |-> "none"]

\* Mutant of token_expired: every failed attempt is retried.
token_expired_any_failure(status_code) == status_code # 200

\* response.status_code == 401: the first attempt is retried after login().
token_expired(status_code) == status_code = 401

\* What the call gives its caller when it fails: create_item and update_item
\* log and re-raise, get_item_by_hash logs and returns None, get_pending_items
\* logs and returns [].
failure(method) ==
    IF method \in {"create_item", "update_item"} THEN "raised"
    ELSE IF method = "get_item_by_hash" THEN "none_returned" ELSE "empty_returned"

\* response.raise_for_status() and the return or the except clause after it.
finish(call, response) ==
    [call EXCEPT !.phase = "done",
                 !.outcome = IF response \in 200..299 THEN "data_returned"
                             ELSE failure(call.method)]

\* A call of one of the methods begins; the client was constructed with a
\* static token or with email and password.
ClientCall ==
    /\ http.phase \in {"idle", "done"}
    /\ \E method \in Methods, static_token \in BOOLEAN :
        http' = [NoCall EXCEPT !.phase = "first", !.method = method,
                               !.static_token = static_token]
    /\ ev' = [op |-> "http"]
    /\ UNCHANGED <<now, docs, recs, pc, source, todo, seen_urls, dry_run, items, url_cache, listed, cache_file>>

\* The first attempt: session.post / get / patch with get_headers().
FirstAttempt ==
    /\ http.phase = "first"
    /\ \E response \in Responses :
        LET sent == [http EXCEPT !.responses = Append(@, response)] IN
        http' = IF response = NetworkError THEN finish(sent, response)
                ELSE IF token_expired(response) THEN [sent EXCEPT !.phase = "login"]
                ELSE finish(sent, response)
    /\ ev' = [op |-> "http"]
    /\ UNCHANGED <<now, docs, recs, pc, source, todo, seen_urls, dry_run, items, url_cache, listed, cache_file>>

\* DirectusClient.login, called after a 401: returns at once when the client
\* holds a static token; otherwise posts the credentials to /auth/login and
\* raises when that fails or gives no access token.
login ==
    /\ http.phase = "login"
    /\ IF http.static_token
       THEN http' = [http EXCEPT !.logins = @ + 1, !.phase = "retry"]
       ELSE \E authenticated \in BOOLEAN :
            LET called == [http EXCEPT !.logins = @ + 1, !.auth_requests = @ + 1] IN
            http' = IF authenticated THEN [called EXCEPT !.phase = "retry"]
                    ELSE [called EXCEPT !.phase = "done", !.outcome = failure(http.method)]
    /\ ev' = [op |-> "http"]
    /\ UNCHANGED <<now, docs, recs, pc, source, todo, seen_urls, dry_run, items, url_cache, listed, cache_file>>

\* The second attempt, whose response goes to raise_for_status() whatever it is.
SecondAttempt ==
    /\ http.phase = "retry"
    /\ \E response \in Responses :
        http' = finish([http EXCEPT !.responses = Append(@, response)], response)
    /\ ev' = [op |-> "http"]
    /\ UNCHANGED <<now, docs, recs, pc, source, todo, seen_urls, dry_run, items, url_cache, listed, cache_file>>

(***************************************************************************)
(* foerdermittel/foerdermittel_scraper.py                                  *)
(***************************************************************************)

\* A fetch that caches what the server answered before looking at its status.
get_page_content_caches_errors(cache, url, response) ==
    LET cached == URLCache_get(cache, url) IN
    IF cached.content # None THEN cached
    ELSE [content |-> response, cache |-> URLCache_set(cached.cache, url, response)]

\* get_page_content: the content of the page, None when the fetch fails, and
\* the cache after the call.  response is what the server answers: a content,
\* or None for a network error, a timeout or an error status (also on the
\* retry without verification).  A cached content is returned without a
\* request; a content fetched is cached; a failed fetch caches nothing.
get_page_content(cache, url, response) ==
    LET cached == URLCache_get(cache, url) IN
    IF cached.content # None THEN cached
    ELSE IF response = None THEN [content |-> None, cache |-> cached.cache]
    ELSE [content |-> response, cache |-> URLCache_set(cached.cache, url, response)]

\* scrape_program_detail: the program data built from a fetched page.
scrape_program_detail(url, source_name, content) ==
    [url |-> url, source_name |-> source_name, content |-> content, scraped_at |-> now]

\* A classification that trusts the content hash alone, as the deprecated
\* check_duplicate_content does.
check_duplicate_by_hash(content_hash, url) ==
    IF \E i \in DOMAIN docs : docs[i].content_hash = content_hash
    THEN LET i == CHOOSE i \in DOMAIN docs : docs[i].content_hash = content_hash
         IN  [status |-> "unchanged", existing_id |-> i, previous_hash |-> content_hash]
    ELSE [status |-> "new", existing_id |-> None, previous_hash |-> None]

\* check_duplicate_or_changed: (status, existing_item_id, previous_hash).
check_duplicate_or_changed(content_hash, url) ==
    LET existing_item == get_item_by_url(docs, url) IN
    IF existing_item # None
    THEN LET previous_hash == docs[existing_item].content_hash IN
         IF previous_hash = content_hash
         THEN [status |-> "unchanged", existing_id |-> existing_item, previous_hash |-> previous_hash]
         ELSE [status |-> "changed", existing_id |-> existing_item, previous_hash |-> previous_hash]
    ELSE [status |-> "new", existing_id |-> None, previous_hash |-> None]

\* save_to_directus, status 'new': the item created.
NewItem(program_data, content_hash) ==
    [url |-> program_data.url,
     source_name |-> program_data.source_name,
     content_hash |-> content_hash,
     previous_content_hash |-> None,
     raw_content |-> program_data,
     scraped_at |-> now,
     last_checked_at |-> now,
     last_seen_at |-> now,
     change_detected_at |-> None,
     processed |-> FALSE,
     processing_status |-> "pending",
     is_active |-> TRUE,
     check_count |-> 1,
     error_message |-> "None",
     foerdermittel_id |-> None]

\* An update of an unchanged program that also flags it for reprocessing.
UnchangedUpdateReprocess(existing_item) ==
    [last_checked_at |-> now,
     last_seen_at |-> now,
     processed |-> FALSE,
     processing_status |-> "pending_update",
     check_count |-> IF existing_item # None THEN docs[existing_item].check_count + 1 ELSE 1]

\* An update of an unchanged program that finds no stored count to add to.
UnchangedUpdateCountLost(existing_item) ==
    [last_checked_at |-> now,
     last_seen_at |-> now,
     check_count |-> 1]

\* save_to_directus, status 'unchanged': update_data.
UnchangedUpdate(existing_item) ==
    [last_checked_at |-> now,
     last_seen_at |-> now,
     check_count |-> IF existing_item # None THEN docs[existing_item].check_count + 1 ELSE 1]

\* An update of a changed program that keeps the new hash as the previous one.
ChangedUpdateLosesHash(program_data, content_hash, previous_hash, existing_item) ==
    [previous_content_hash |-> content_hash,
     content_hash |-> content_hash,
     raw_content |-> program_data,
     scraped_at |-> now,
     last_checked_at |-> now,
     last_seen_at |-> now,
     change_detected_at |-> now,
     processed |-> FALSE,
     processing_status |-> "pending_update",
     check_count |-> IF existing_item # None THEN docs[existing_item].check_count + 1 ELSE 1]

\* save_to_directus, status 'changed': update_data.
ChangedUpdate(program_data, content_hash, previous_hash, existing_item) ==
    [previous_content_hash |-> previous_hash,
     content_hash |-> content_hash,
     raw_content |-> program_data,
     scraped_at |-> now,
     last_checked_at |-> now,
     last_seen_at |-> now,
     change_detected_at |-> now,
     processed |-> FALSE,
     processing_status |-> "pending_update",
     check_count |-> IF existing_item # None THEN docs[existing_item].check_count + 1 ELSE 1]

\* A save that stores a changed page as a further item instead of updating
\* the stored one.
save_to_directus_changed_creates(program_data, content_hash, status, existing_id, previous_hash, existing_item, ok) ==
    IF ~ok THEN docs
    ELSE IF status = "unchanged" THEN update_item(docs, existing_id, UnchangedUpdate(existing_item))
    ELSE Append(docs, NewItem(program_data, content_hash))

\* save_to_directus: the collection after the call; ok is whether the backend
\* accepted the write (a failed create or update is caught and logged).
save_to_directus(program_data, content_hash, status, existing_id, previous_hash, existing_item, ok) ==
    IF ~ok THEN docs
    ELSE IF status = "new" THEN Append(docs, NewItem(program_data, content_hash))
    ELSE IF status = "unchanged" THEN update_item(docs, existing_id, UnchangedUpdate(existing_item))
    ELSE update_item(docs, existing_id,
                     ChangedUpdate(program_data, content_hash, previous_hash, existing_item))

\* A last_seen_at that datetime.fromisoformat rejects.
Unparseable == None - 1

\* A sweep that takes a program without a readable last_seen_at for one seen
\* just now.
days_since_last_seen_missing_is_recent(program) ==
    IF program.last_seen_at \notin {None, Unparseable}
    THEN (now - program.last_seen_at) \div TicksPerDay
    ELSE 0

\* mark_removed_programs: days since the program was last seen; a
\* last_seen_at that is missing or cannot be parsed counts as 999 days.
days_since_last_seen(program) ==
    IF program.last_seen_at \notin {None, Unparseable}
    THEN (now - program.last_seen_at) \div TicksPerDay
    ELSE UNPARSEABLE_DAYS

\* A sweep that waits for more than the buffer.
ToRemoveStrict(source_name, seen) ==
    {i \in get_active_programs(docs, source_name) :
        /\ docs[i].url \notin seen
        /\ days_since_last_seen(docs[i]) > SAFETY_BUFFER_DAYS}

\* mark_removed_programs: the active programs of the source to mark as removed.
ToRemove(source_name, seen) ==
    {i \in get_active_programs(docs, source_name) :
        /\ docs[i].url \notin seen
        /\ days_since_last_seen(docs[i]) >= SAFETY_BUFFER_DAYS}

RemovedUpdate == [is_active |-> FALSE, last_checked_at |-> now, processing_status |-> "removed"]

\* A sweep that stamps last_checked_at on every active program of the source.
mark_removed_programs_stamps_all(source_name, seen, failed) ==
    [i \in DOMAIN docs |->
        IF i \in ToRemove(source_name, seen) \ failed
        THEN update_item(docs, i, RemovedUpdate)[i]
        ELSE IF i \in get_active_programs(docs, source_name)
        THEN update_item(docs, i, [last_checked_at |-> now])[i]
        ELSE docs[i]]

\* mark_removed_programs: the collection after the sweep; failed is the set of
\* programs whose update the backend refused (caught and logged per program).
mark_removed_programs(source_name, seen, failed) ==
    [i \in DOMAIN docs |->
        IF i \in ToRemove(source_name, seen) \ failed
        THEN update_item(docs, i, RemovedUpdate)[i]
        ELSE docs[i]]

\* The urls whose stored check_count still has room under the model's cap.
Scannable(s, pages) ==
    {u \in SourceUrls(s) \cap pages :
        get_item_by_url(docs, u) = None \/ docs[get_item_by_url(docs, u)].check_count < MaxCheck}

RECURSIVE SetToSeq(_)
SetToSeq(S) ==
    IF S = {} THEN <<>>
    ELSE LET x == CHOOSE y \in S : \A z \in S : y <= z IN <<x>> \o SetToSeq(S \ {x})

\* check_duplicate_content (deprecated, called by scrape_aktion_mensch): the
\* hash is looked up in the in-memory ContentHashCache first and in the backend
\* by get_item_by_hash after that; a hit in the backend is added to the cache.
check_duplicate_content(hash_cache, content_hash, read_ok) ==
    IF content_hash \in hash_cache
    THEN [is_duplicate |-> TRUE, memory |-> TRUE, hash_cache |-> hash_cache]
    ELSE IF get_item_by_hash(docs, content_hash, read_ok) # None
    THEN [is_duplicate |-> TRUE, memory |-> FALSE,
          hash_cache |-> hash_cache \cup {content_hash}]
    ELSE [is_duplicate |-> FALSE, memory |-> FALSE, hash_cache |-> hash_cache]

\* program_urls[:self.max_programs], applied when max_programs > 0.
limit_programs(program_urls, max_programs) ==
    IF max_programs > 0 /\ Len(program_urls) > max_programs
    THEN SubSeq(program_urls, 1, max_programs)
    ELSE program_urls

\* scrape_aktion_mensch, the loop over the sections of the page: a section
\* whose program data is a duplicate by check_duplicate_content is skipped,
\* the others are the programs returned.  memory_hits are the urls of the
\* sections skipped on a hit in the in-memory cache, backend_hits of those
\* skipped on a hit in the backend.
RECURSIVE extract_programs(_, _, _, _)
extract_programs(source_name, program_sections, hash_cache, read_ok) ==
    IF program_sections = <<>>
    THEN [programs |-> <<>>, memory_hits |-> {}, backend_hits |-> {}]
    ELSE LET section == Head(program_sections)
             program_data == [url |-> section.url, source_name |-> source_name,
                              content |-> section.content, scraped_at |-> now]
             d == check_duplicate_content(hash_cache, calculate_content_hash(program_data),
                                          read_ok)
             rest == extract_programs(source_name, Tail(program_sections), d.hash_cache, read_ok)
         IN  [programs |-> IF d.is_duplicate THEN rest.programs
                           ELSE <<section>> \o rest.programs,
              memory_hits |-> IF d.memory THEN rest.memory_hits \cup {section.url}
                              ELSE rest.memory_hits,
              backend_hits |-> IF d.is_duplicate /\ ~d.memory
                               THEN rest.backend_hits \cup {section.url}
                               ELSE rest.backend_hits]

\* scrape_aktion_mensch: the sections found on the page, limited to
\* max_programs, less the duplicates; the scraper's hash cache is empty when
\* the first source of a run is scraped.
scrape_aktion_mensch(source_name, program_sections, max_programs, read_ok) ==
    extract_programs(source_name, limit_programs(program_sections, max_programs), {}, read_ok)

\* The sections the page of an aktion_mensch source can show: up to
\* MaxSections of them, each the section of a url with a content; a program
\* can be shown twice.
Sections(s, pages) ==
    LET one == {[url |-> u, content |-> c] : u \in Scannable(s, pages), c \in Contents}
    IN  UNION {[1..n -> one] : n \in 0..MaxSections}

\* The url of an entry of the list scrape_source loops over: the entry is a
\* url, and the program data of a section for an aktion_mensch source.
program_url(p) == IF SourceType(source) = "aktion_mensch" THEN p.url ELSE p

\* scrape_source, up to the loop: the listing is fetched and shows the urls
\* listed (none when the fetch failed or the selector matched nothing), of
\* which the first max_programs make program_urls.  The generic branch returns
\* early, without a sweep, when the listing fetch failed.
\* srcs are the sources configured and pages the pages their listings link.
\* The scraper is constructed first: with --clear-cache the cache file is
\* removed, otherwise it is loaded and its expired entries dropped; clears
\* are the values of --clear-cache the runs are started with, limits the
\* values of --max-programs.
scrape_source(srcs, pages, clears, limits) ==
    /\ pc = "idle"
    /\ \E clear \in clears :
        url_cache' = IF clear THEN URLCache_clear(url_cache)
                     ELSE URLCache_clean_expired(url_cache)
    /\ \E s \in srcs, listing_ok \in BOOLEAN, max_programs \in limits :
        IF SourceType(s) = "aktion_mensch"
        THEN \E program_sections \in Sections(s, pages), read_ok \in BOOLEAN :
                LET r == scrape_aktion_mensch(s, program_sections, max_programs, read_ok) IN
                /\ ~listing_ok => program_sections = <<>>
                /\ pc' = "scan"
                /\ source' = s
                /\ listed' = {program_sections[i].url : i \in DOMAIN program_sections}
                /\ todo' = r.programs
                /\ seen_urls' = {}
                /\ ev' = [op |-> "scan_started", source |-> s,
                          memory_hits |-> r.memory_hits, backend_hits |-> r.backend_hits]
        ELSE \E urls \in SUBSET Scannable(s, pages) :
                /\ ~listing_ok => urls = {}
                /\ IF SourceType(s) = "generic" /\ ~listing_ok
                   THEN /\ UNCHANGED <<pc, source, todo, seen_urls, listed>>
                        /\ ev' = [op |-> "scan_aborted", source |-> s]
                   ELSE /\ pc' = "scan"
                        /\ source' = s
                        /\ listed' = urls
                        /\ todo' = limit_programs(SetToSeq(urls), max_programs)
                        /\ seen_urls' = {}
                        /\ ev' = [op |-> "scan_started", source |-> s]
    /\ UNCHANGED <<now, docs, recs, dry_run, items, http, cache_file>>

\* Runs without a limit on the programs per source (--max-programs 0).
Unlimited == {0}

\* Runs started with --clear-cache.
StartScan == scrape_source(Sources, Urls, {TRUE}, Unlimited)

\* The same with the aktion_mensch source alone.
StartScanMensch == scrape_source({"s3"}, Urls, {TRUE}, Unlimited)

\* The same with one source and one page configured.
StartScanOne == scrape_source({"s1"}, {1}, {TRUE}, Unlimited)

\* One source, both pages, runs with and without --clear-cache.
StartScanCached == scrape_source({"s1"}, Urls, BOOLEAN, Unlimited)

\* Runs with a limit of one program per source (--max-programs 1).
Limited == {1}

\* One source, both pages, at most one program scraped per run.
StartScanLimited == scrape_source({"s1"}, Urls, {TRUE}, Limited)

\* scrape_program_detail: the fetch of the detail page of a url.  The programs
\* of an aktion_mensch source are sections of its page: no page is fetched for
\* one of them.
fetch_detail(url, response) ==
    IF SourceType(source) = "aktion_mensch"
    THEN [content |-> response, cache |-> url_cache]
    ELSE get_page_content(url_cache, url, response)

\* scrape_source, one iteration of the loop over program_urls whose detail
\* page could not be fetched: the url is tracked, nothing is saved.
ProcessUrlFetchFailed ==
    /\ pc = "scan" /\ todo # <<>>
    /\ SourceType(source) # "aktion_mensch"
    /\ fetch_detail(Head(todo), None).content = None
    /\ url_cache' = fetch_detail(Head(todo), None).cache
    /\ seen_urls' = seen_urls \cup {Head(todo)}
    /\ todo' = Tail(todo)
    /\ ev' = [op |-> "fetch_failed", url |-> Head(todo)]
    /\ UNCHANGED <<now, docs, recs, pc, source, dry_run, items, http, listed, cache_file>>

\* A loop iteration that takes a failed read by url for "no item with this
\* url", as get_item_by_hash answers a failed read, and saves the page as new.
ProcessUrlReadAsNew ==
    /\ pc = "scan" /\ todo # <<>>
    /\ \E response \in Contents :
        LET url == Head(todo)
            page == fetch_detail(url, response)
            program_data == scrape_program_detail(url, source, page.content)
            content_hash == calculate_content_hash(program_data)
        IN  /\ docs' = save_to_directus(program_data, content_hash, "new", None, None, None, TRUE)
            /\ url_cache' = page.cache
            /\ ev' = [op |-> "read_failed", url |-> url, caught |-> TRUE]
    /\ seen_urls' = seen_urls \cup {Head(todo)}
    /\ todo' = Tail(todo)
    /\ UNCHANGED <<now, recs, pc, source, dry_run, items, http, listed, cache_file>>

\* The contents the program of the next loop iteration can have: those the
\* page fetched can have, and for an aktion_mensch source the content of the
\* section scrape_aktion_mensch extracted.
page_contents(contents) ==
    IF SourceType(source) = "aktion_mensch" THEN {Head(todo).content} ELSE contents

\* scrape_source, one iteration of a loop in which the page is fetched and
\* the read of the stored item by url then raises (in
\* check_duplicate_or_changed or in the read of existing_item that follows):
\* nothing is classified or saved.  The loop over program_urls catches the
\* error and continues with the next url; the loop of the aktion_mensch branch
\* has no handler, so the error leaves scrape_source (run catches it) and
\* neither the remaining programs nor the sweep are run.
\* contents are the contents the page fetched can have.
read_failed(contents) ==
    /\ pc = "scan" /\ todo # <<>>
    /\ \E response \in page_contents(contents) :
        url_cache' = fetch_detail(program_url(Head(todo)), response).cache
    /\ IF SourceType(source) = "aktion_mensch"
       THEN /\ pc' = "idle"
            /\ todo' = <<>>
            /\ seen_urls' = {}
            /\ listed' = {}
            /\ ev' = [op |-> "read_failed", url |-> program_url(Head(todo)), caught |-> FALSE]
       ELSE /\ pc' = pc
            /\ todo' = Tail(todo)
            /\ seen_urls' = seen_urls \cup {Head(todo)}
            /\ listed' = listed
            /\ ev' = [op |-> "read_failed", url |-> Head(todo), caught |-> TRUE]
    /\ UNCHANGED <<now, docs, recs, source, dry_run, items, http, cache_file>>

ProcessUrlReadFailed == read_failed(Contents)

\* The same with pages that are never edited.
ProcessUrlReadFailedSame == read_failed({1})

\* scrape_source, one iteration of the loop over program_urls: fetch the
\* detail page, classify it, save it.
\* contents are the contents the page fetched can have.
process_url(contents) ==
    /\ pc = "scan" /\ todo # <<>>
    /\ \E response \in page_contents(contents), ok \in BOOLEAN :
        LET url == program_url(Head(todo))
            page == fetch_detail(url, response)
            content == page.content
            program_data == scrape_program_detail(url, source, content)
            content_hash == calculate_content_hash(program_data)
            c == check_duplicate_or_changed(content_hash, url)
            existing_item == IF c.existing_id # None THEN get_item_by_url(docs, url) ELSE None
        IN  /\ docs' = save_to_directus(program_data, content_hash, c.status, c.existing_id,
                                        c.previous_hash, existing_item, ok)
            /\ url_cache' = page.cache
            /\ ev' = [op |-> "save", url |-> url, c |-> c, content |-> content, ok |-> ok]
    /\ seen_urls' = seen_urls \cup {program_url(Head(todo))}
    /\ todo' = Tail(todo)
    /\ UNCHANGED <<now, recs, pc, source, dry_run, items, http, listed, cache_file>>

ProcessUrl == process_url(Contents)

\* The same with pages that are never edited.
ProcessUrlSame == process_url({1})

\* A sweep that does not wait for the loop over program_urls to end.
SweepEarly ==
    /\ pc = "scan"
    /\ \E failed \in SUBSET ToRemove(source, seen_urls) :
        /\ docs' = mark_removed_programs(source, seen_urls, failed)
        /\ ev' = [op |-> "sweep", source |-> source, seen |-> seen_urls, failed |-> failed]
    /\ pc' = "idle"
    /\ seen_urls' = {}
    /\ listed' = {}
    /\ todo' = <<>>
    /\ UNCHANGED <<now, recs, source, dry_run, items, url_cache, http, cache_file>>

\* scrape_source, after the loop: mark_removed_programs(source, seen_urls).
Sweep ==
    /\ pc = "scan" /\ todo = <<>>
    /\ \E failed \in SUBSET ToRemove(source, seen_urls) :
        /\ docs' = mark_removed_programs(source, seen_urls, failed)
        /\ ev' = [op |-> "sweep", source |-> source, seen |-> seen_urls, failed |-> failed]
    /\ pc' = "idle"
    /\ seen_urls' = {}
    /\ listed' = {}
    /\ UNCHANGED <<now, recs, source, todo, dry_run, items, url_cache, http, cache_file>>

(***************************************************************************)
(* foerdermittel/foerdermittel_analyzer.py                                 *)
(***************************************************************************)

Titles == 1..NumTitles
Descriptions == 1..NumDescriptions

\* FoerdermittelProcessor.process_program, on success: the dump of the
\* structured data the extraction returned for the item.  The extraction
\* decides title and description; the other fields are the same in every
\* extraction of this model.
process_program(item_id, title, description) ==
    [title |-> title,
     description |-> description,
     funding_organization |-> 1,
     funding_amount_min |-> None,
     funding_amount_max |-> 1,
     application_deadline |-> None,
     funding_period_end |-> None,
     eligibility_criteria |-> 1,
     funding_rate |-> None,
     deadline_type |-> 1,
     is_relevant |-> 1,
     status |-> "draft",
     scraped_data_id |-> item_id]

Extractions(item_id) ==
    {process_program(item_id, ti, de) : ti \in Titles, de \in Descriptions}

\* detect_changes: the allow-list, in its order, with the entry each field
\* adds to the summary.
significant_fields ==
    << <<"title", "Title changed">>,
       <<"funding_amount_min", "Min funding amount changed">>,
       <<"funding_amount_max", "Max funding amount changed">>,
       <<"application_deadline", "Application deadline changed">>,
       <<"funding_period_end", "Funding period end changed">>,
       <<"eligibility_criteria", "Eligibility criteria changed">>,
       <<"funding_rate", "Funding rate changed">>,
       <<"deadline_type", "Deadline type changed">>,
       <<"is_relevant", "Relevance status changed">> >>

\* detect_changes passing over a field that is null on either side.
detect_changes_skips_null(old_data, new_data) ==
    LET changed(p) == /\ ~(old_data[p[1]] = None \/ new_data[p[1]] = None)
                      /\ old_data[p[1]] # new_data[p[1]]
        changes == SelectSeq(significant_fields, changed)
    IN  [i \in 1..Len(changes) |-> changes[i][2]]

\* detect_changes comparing every extracted field, not only the allow-list.
detect_changes_every_field(old_data, new_data) ==
    LET changed(p) == /\ ~(old_data[p[1]] = None /\ new_data[p[1]] = None)
                      /\ old_data[p[1]] # new_data[p[1]]
        changes == SelectSeq(significant_fields \o << <<"description", "Description changed">> >>,
                             changed)
    IN  [i \in 1..Len(changes) |-> changes[i][2]]

\* detect_changes: the entries joined by "; " (here: their sequence), empty
\* when nothing significant changed (the function then returns None).
detect_changes(old_data, new_data) ==
    LET changed(p) == /\ ~(old_data[p[1]] = None /\ new_data[p[1]] = None)
                      /\ old_data[p[1]] # new_data[p[1]]
        changes == SelectSeq(significant_fields, changed)
    IN  [i \in 1..Len(changes) |-> changes[i][2]]

\* "; ".join(changes), for a list that is not empty.
RECURSIVE join_changes(_)
join_changes(changes) ==
    IF Len(changes) = 1 THEN changes[1]
    ELSE changes[1] \o "; " \o join_changes(Tail(changes))

\* The values a field of an entry can hold: null or one of NumValues values.
FieldValues == {None} \cup (1..NumValues)

\* The fields of an entry that the two sides of a comparison can differ in:
\* those of the allow-list and two that are not on it.
ComparedFields ==
    {significant_fields[k][1] : k \in DOMAIN significant_fields}
        \cup {"description", "funding_organization"}

\* The entries detect_changes is applied to: the old side differs from one
\* extraction in at most one field, the new side in at most two.
OldEntries ==
    {[process_program(1, 1, 1) EXCEPT ![f] = v] : f \in ComparedFields, v \in FieldValues}

NewEntries ==
    {[o EXCEPT ![f] = v] : o \in OldEntries, f \in ComparedFields, v \in FieldValues}

\* detect_changes(old_data, new_data) is called and returns: none says that
\* it returned None, text is the summary it returned otherwise.
DetectChanges ==
    /\ ev.op = "detect_changes"
    /\ LET changes == detect_changes(ev.old_data, ev.new_data) IN
       ev' = [op |-> "detected", old_data |-> ev.old_data, new_data |-> ev.new_data,
              changes |-> changes, none |-> (changes = <<>>),
              text |-> IF changes = <<>> THEN "" ELSE join_changes(changes)]
    /\ UNCHANGED <<now, docs, recs, pc, source, todo, seen_urls, dry_run, items, url_cache,
                   http, listed, cache_file>>

\* A create that writes over the entry already stored for the scraped item.
create_item_upsert(collection, data) ==
    LET defaults == [version |-> 1, previous_version_id |-> None,
                     change_summary |-> <<>>, requires_review |-> FALSE]
        item == [f \in DOMAIN data \cup DOMAIN defaults |->
                    IF f \in DOMAIN data THEN data[f] ELSE defaults[f]]
        same == {r \in DOMAIN collection : collection[r].scraped_data_id = data.scraped_data_id}
    IN  IF same = {} THEN Append(collection, item)
        ELSE [collection EXCEPT ![CHOOSE r \in same : TRUE] = item]

\* DirectusClient.create_item on collection foerdermittel: the backend stores
\* the fields given and its defaults for the others (version 1, no
\* predecessor, no summary, no review flag), and numbers the item.
create_item(collection, data) ==
    LET defaults == [version |-> 1, previous_version_id |-> None,
                     change_summary |-> <<>>, requires_review |-> FALSE]
    IN  Append(collection,
               [f \in DOMAIN data \cup DOMAIN defaults |->
                    IF f \in DOMAIN data THEN data[f] ELSE defaults[f]])

RECURSIVE SortByScrapedAt(_, _)
SortByScrapedAt(collection, S) ==
    IF S = {} THEN <<>>
    ELSE LET x == CHOOSE y \in S : \A z \in S :
                    \/ collection[y].scraped_at < collection[z].scraped_at
                    \/ collection[y].scraped_at = collection[z].scraped_at /\ y <= z
         IN  <<x>> \o SortByScrapedAt(collection, S \ {x})

\* DirectusClient.get_pending_items: the ids of the items with the status,
\* oldest scraped_at first, at most limit of them.
get_pending_items(collection, processing_status, limit) ==
    LET sorted == SortByScrapedAt(collection,
                    {i \in DOMAIN collection : collection[i].processing_status = processing_status})
    IN  SubSeq(sorted, 1, IF Len(sorted) < limit THEN Len(sorted) ELSE limit)

\* An except branch that records the message and leaves the status.
ErrorStatusMessageOnly(item_id, dry, okB, recs_now) ==
    [docs |-> IF ~dry /\ okB
              THEN update_item(docs, item_id, [error_message |-> "exception"])
              ELSE docs,
     recs |-> recs_now]

\* The except branch of main and of process_program_update: the item is
\* marked failed, unless this is a dry run or this update fails as well.
\* Results are [docs, recs]: the two collections after the call.
ErrorStatus(item_id, dry, okB, recs_now) ==
    [docs |-> IF ~dry /\ okB
              THEN update_item(docs, item_id,
                        [processing_status |-> "failed", error_message |-> "exception"])
              ELSE docs,
     recs |-> recs_now]

\* A failed extraction recorded without its message.
ExtractionFailedNoMessage(item_id, dry, okA, okB) ==
    IF dry THEN [docs |-> docs, recs |-> recs]
    ELSE IF okA
    THEN [docs |-> update_item(docs, item_id, [processing_status |-> "failed"]),
          recs |-> recs]
    ELSE ErrorStatus(item_id, dry, okB, recs)

\* The extraction returned nothing: the item is marked failed.
ExtractionFailed(item_id, dry, okA, okB) ==
    IF dry THEN [docs |-> docs, recs |-> recs]
    ELSE IF okA
    THEN [docs |-> update_item(docs, item_id,
                        [processing_status |-> "failed", error_message |-> "extract_failed"]),
          recs |-> recs]
    ELSE ErrorStatus(item_id, dry, okB, recs)

\* create_item, then an update of the scraped item that completes it but
\* leaves its link where it was.
CreateAndForgetLink(item_id, data, dry, okC, okA, okB) ==
    IF dry THEN [docs |-> docs, recs |-> recs]
    ELSE IF ~okC THEN ErrorStatus(item_id, dry, okB, recs)
    ELSE LET created == create_item(recs, data) IN
         IF ~okA THEN ErrorStatus(item_id, dry, okB, created)
         ELSE [docs |-> update_item(docs, item_id,
                            [processed |-> TRUE, processing_status |-> "completed"]),
               recs |-> created]

\* create_item on foerdermittel, then the update of the scraped item that
\* completes it and links it to the item created.
CreateAndLink(item_id, data, dry, okC, okA, okB) ==
    IF dry THEN [docs |-> docs, recs |-> recs]
    ELSE IF ~okC THEN ErrorStatus(item_id, dry, okB, recs)
    ELSE LET created == create_item(recs, data) IN
         IF ~okA THEN ErrorStatus(item_id, dry, okB, created)
         ELSE [docs |-> update_item(docs, item_id,
                            [processed |-> TRUE, processing_status |-> "completed",
                             foerdermittel_id |-> Len(created)]),
               recs |-> created]

\* The completing update issued whether or not this is a dry run.
CompleteInDryRun(item_id, fields, dry, okA, okB) ==
    IF okA THEN [docs |-> update_item(docs, item_id, fields), recs |-> recs]
    ELSE ErrorStatus(item_id, dry, okB, recs)

\* The update that completes the scraped item without linking anything.
Complete(item_id, fields, dry, okA, okB) ==
    IF dry THEN [docs |-> docs, recs |-> recs]
    ELSE IF okA THEN [docs |-> update_item(docs, item_id, fields), recs |-> recs]
    ELSE ErrorStatus(item_id, dry, okB, recs)

\* The data of a new version that keeps the number of the version it replaces.
new_version_data_same_number(new_structured_data, old_data, change_summary, existing_foerdermittel_id) ==
    [f \in DOMAIN new_structured_data \cup
           {"version", "change_summary", "previous_version_id", "requires_review"} |->
        IF f = "version" THEN old_data.version
        ELSE IF f = "change_summary" THEN change_summary
        ELSE IF f = "previous_version_id" THEN existing_foerdermittel_id
        ELSE IF f = "requires_review" THEN TRUE
        ELSE IF f = "status" THEN "draft"
        ELSE new_structured_data[f]]

\* The data of a new version that inherits the status of the version it replaces.
new_version_data_keeps_status(new_structured_data, old_data, change_summary, existing_foerdermittel_id) ==
    [f \in DOMAIN new_structured_data \cup
           {"version", "change_summary", "previous_version_id", "requires_review"} |->
        IF f = "version" THEN old_data.version + 1
        ELSE IF f = "change_summary" THEN change_summary
        ELSE IF f = "previous_version_id" THEN existing_foerdermittel_id
        ELSE IF f = "requires_review" THEN TRUE
        ELSE IF f = "status" THEN old_data.status
        ELSE new_structured_data[f]]

\* process_program_update, a significant change: the data of the new version.
new_version_data(new_structured_data, old_data, change_summary, existing_foerdermittel_id) ==
    [f \in DOMAIN new_structured_data \cup
           {"version", "change_summary", "previous_version_id", "requires_review"} |->
        IF f = "version" THEN old_data.version + 1
        ELSE IF f = "change_summary" THEN change_summary
        ELSE IF f = "previous_version_id" THEN existing_foerdermittel_id
        ELSE IF f = "requires_review" THEN TRUE
        ELSE IF f = "status" THEN "draft"
        ELSE new_structured_data[f]]

\* process_program_update: the branch taken for the item; data is the
\* extraction's result or NoData, read_ok whether the existing entry was read.
NoData == [title |-> None]

UpdateBranch(item_id, data, read_ok) ==
    IF data = NoData THEN "no_data"
    ELSE IF docs[item_id].foerdermittel_id = None THEN "no_pointer"
    ELSE IF ~read_ok THEN "old_missing"
    ELSE IF detect_changes(recs[docs[item_id].foerdermittel_id], data) = <<>> THEN "no_change"
    ELSE "changed"

\* process_program_update: the two collections after the call.
process_program_update(item_id, data, dry, read_ok, okC, okA, okB) ==
    LET branch == UpdateBranch(item_id, data, read_ok)
        existing_foerdermittel_id == docs[item_id].foerdermittel_id
    IN  IF branch = "no_data" THEN ExtractionFailed(item_id, dry, okA, okB)
        ELSE IF branch \in {"no_pointer", "old_missing"}
        THEN CreateAndLink(item_id, data, dry, okC, okA, okB)
        ELSE IF branch = "no_change"
        THEN Complete(item_id, [processed |-> TRUE, processing_status |-> "completed"],
                      dry, okA, okB)
        ELSE LET old_data == recs[existing_foerdermittel_id]
                 change_summary == detect_changes(old_data, data)
             IN  CreateAndLink(item_id,
                               new_version_data(data, old_data, change_summary,
                                                existing_foerdermittel_id),
                               dry, okC, okA, okB)

\* process_program_update: the value returned.  False when the extraction
\* gave nothing and when a backend call raised; True otherwise, also in a dry
\* run.
update_returns(branch, dry, okC, okA) ==
    IF branch = "no_data" THEN FALSE
    ELSE IF dry THEN TRUE
    ELSE IF branch = "no_change" THEN okA
    ELSE okC /\ okA

\* main, the duplicate check of a new item: an entry with the same title and
\* funding organization exists (the answer counts only with status 200).
IsDuplicate(data, dup_status) ==
    /\ dup_status = "200"
    /\ \E r \in RecIds : /\ recs[r].title = data.title
                         /\ recs[r].funding_organization = data.funding_organization

PendingBranch(data, dup_status) ==
    IF data = NoData THEN "no_data"
    ELSE IF dup_status = "raised" THEN "error"
    ELSE IF IsDuplicate(data, dup_status) THEN "duplicate"
    ELSE "created"

\* main, the body of the loop over the pending items.
process_pending(item_id, data, dry, dup_status, okC, okA, okB) ==
    LET branch == PendingBranch(data, dup_status)
    IN  IF branch = "no_data" THEN ExtractionFailed(item_id, dry, okA, okB)
        ELSE IF dry THEN [docs |-> docs, recs |-> recs]
        ELSE IF branch = "error" THEN ErrorStatus(item_id, dry, okB, recs)
        ELSE IF branch = "duplicate"
        THEN Complete(item_id, [processed |-> TRUE, processing_status |-> "completed",
                                error_message |-> "duplicate"], dry, okA, okB)
        ELSE CreateAndLink(item_id, data, dry, okC, okA, okB)

\* The number of entries an analyzer run can add.
Creatable ==
    Cardinality({i \in DocIds : docs[i].processing_status \in {"pending", "pending_update"}})

\* main, up to the first loop: the pending items are fetched (none when the
\* fetch fails).
StartAnalyzer ==
    /\ pc = "idle"
    /\ Len(recs) + Creatable <= MaxRecs
    /\ \E dry \in BOOLEAN, fetch_ok \in BOOLEAN :
        /\ dry_run' = dry
        /\ items' = IF fetch_ok THEN get_pending_items(docs, "pending", DEFAULT_LIMIT) ELSE <<>>
        /\ ev' = [op |-> "analyzer_started", dry |-> dry]
    /\ pc' = "pending"
    /\ UNCHANGED <<now, docs, recs, source, todo, seen_urls, url_cache, http, listed, cache_file>>

\* main, one iteration of the loop over the pending items.
ProcessPending ==
    /\ pc = "pending" /\ items # <<>>
    /\ \E data \in Extractions(Head(items)) \cup {NoData},
          dup_status \in {"200", "other", "raised"}, okC, okA, okB \in BOOLEAN :
        LET r == process_pending(Head(items), data, dry_run, dup_status, okC, okA, okB)
        IN  /\ docs' = r.docs
            /\ recs' = r.recs
            /\ ev' = [op |-> "pending", id |-> Head(items), dry |-> dry_run,
                      branch |-> PendingBranch(data, dup_status), data |-> data,
                      okC |-> okC, okA |-> okA]
    /\ items' = Tail(items)
    /\ UNCHANGED <<now, pc, source, todo, seen_urls, dry_run, url_cache, http, listed, cache_file>>

\* main, between the loops: the pending_update items are fetched.
FetchUpdates ==
    /\ pc = "pending" /\ items = <<>>
    /\ \E fetch_ok \in BOOLEAN :
        items' = IF fetch_ok THEN get_pending_items(docs, "pending_update", DEFAULT_LIMIT) ELSE <<>>
    /\ pc' = "updates"
    /\ ev' = [op |-> "updates_fetched"]
    /\ UNCHANGED <<now, docs, recs, source, todo, seen_urls, dry_run, url_cache, http, listed, cache_file>>

\* main, one iteration of the loop over the pending_update items:
\* process_program_update(processor, directus, item, args.dry_run).
ProcessUpdate ==
    /\ pc = "updates" /\ items # <<>>
    /\ \E data \in Extractions(Head(items)) \cup {NoData}, read_ok, okC, okA, okB \in BOOLEAN :
        LET r == process_program_update(Head(items), data, dry_run, read_ok, okC, okA, okB)
        IN  /\ docs' = r.docs
            /\ recs' = r.recs
            /\ ev' = [op |-> "update", id |-> Head(items), dry |-> dry_run,
                      branch |-> UpdateBranch(Head(items), data, read_ok), data |-> data,
                      okC |-> okC, okA |-> okA,
                      ret |-> update_returns(UpdateBranch(Head(items), data, read_ok),
                                             dry_run, okC, okA)]
    /\ items' = Tail(items)
    /\ UNCHANGED <<now, pc, source, todo, seen_urls, dry_run, url_cache, http, listed, cache_file>>

\* main, after the loops: the summary is printed and the run ends.
FinishAnalyzer ==
    /\ pc = "updates" /\ items = <<>>
    /\ pc' = "idle"
    /\ dry_run' = FALSE
    /\ ev' = [op |-> "analyzer_finished"]
    /\ UNCHANGED <<now, docs, recs, source, todo, seen_urls, items, url_cache, http, listed, cache_file>>

\* An editor publishes a draft entry (the status lifecycle of an entry).
Publish ==
    /\ pc = "idle"
    /\ Cardinality({r \in RecIds : recs[r].status = "published"}) < MaxPublished
    /\ \E r \in RecIds :
        /\ recs[r].status = "draft"
        /\ recs' = [recs EXCEPT ![r].status = "published"]
        /\ ev' = [op |-> "publish", id |-> r]
    /\ UNCHANGED <<now, docs, pc, source, todo, seen_urls, dry_run, items, url_cache, http, listed, cache_file>>


\* The wall clock advances by one tick between two runs, early on.
Tick ==
    /\ pc = "idle"
    /\ now < ShortTime
    /\ now' = now + 1
    /\ ev' = [op |-> "tick"]
    /\ UNCHANGED <<docs, recs, pc, source, todo, seen_urls, dry_run, items, url_cache, http, listed, cache_file>>

\* No run is scheduled for one day short of the safety buffer.
Sleep ==
    /\ pc = "idle"
    /\ now = 0
    /\ now' = QuietTo
    /\ ev' = [op |-> "tick"]
    /\ UNCHANGED <<docs, recs, pc, source, todo, seen_urls, dry_run, items, url_cache, http, listed, cache_file>>

\* The wall clock advances by one tick between two runs, after the sleep.
LateTick ==
    /\ pc = "idle"
    /\ now >= QuietTo /\ now < MaxTime
    /\ now' = now + 1
    /\ ev' = [op |-> "tick"]
    /\ UNCHANGED <<docs, recs, pc, source, todo, seen_urls, dry_run, items, url_cache, http, listed, cache_file>>

Init ==
    /\ now = 0
    /\ docs = <<>>
    /\ recs = <<>>
    /\ pc = "idle"
    /\ source = "s1"
    /\ todo = <<>>
    /\ seen_urls = {}
    /\ dry_run = FALSE
    /\ items = <<>>
    /\ url_cache = [u \in Urls |-> NoEntry]
    /\ http = NoCall
    /\ listed = {}
    /\ cache_file = [u \in Urls |-> NoEntry]
    /\ ev = NoEvent

\* The collection holds one item that was stored without a readable
\* last_seen_at (before the scraper stamped it, or by another writer); it was
\* created and checked at the instant the clock shows.
InitLegacy ==
    /\ now = 0
    /\ docs \in {<< [NewItem(scrape_program_detail(u, s, 1),
                               calculate_content_hash(scrape_program_detail(u, s, 1)))
                            EXCEPT !.last_seen_at = stamp] >> :
                    u \in Urls, s \in {"s1"}, stamp \in {None, Unparseable}}
    /\ recs = <<>>
    /\ pc = "idle"
    /\ source = "s1"
    /\ todo = <<>>
    /\ seen_urls = {}
    /\ dry_run = FALSE
    /\ items = <<>>
    /\ url_cache = [u \in Urls |-> NoEntry]
    /\ http = NoCall
    /\ listed = {}
    /\ cache_file = [u \in Urls |-> NoEntry]
    /\ ev = NoEvent

\* detect_changes is about to be called with two entries.
InitDetect ==
    /\ now = 0
    /\ docs = <<>>
    /\ recs = <<>>
    /\ pc = "idle"
    /\ source = "s1"
    /\ todo = <<>>
    /\ seen_urls = {}
    /\ dry_run = FALSE
    /\ items = <<>>
    /\ url_cache = [u \in Urls |-> NoEntry]
    /\ http = NoCall
    /\ listed = {}
    /\ cache_file = [u \in Urls |-> NoEntry]
    /\ ev \in {[op |-> "detect_changes", old_data |-> o, new_data |-> n] :
                    o \in OldEntries, n \in NewEntries}

(***************************************************************************)
(* The claims.                                                             *)
(***************************************************************************)

\* The step just taken saved (or tried to save) a fetched page.
Saved == ev.op = "save"

\* The documents stored under a url.
DocsOf(url) == {i \in DocIds : docs[i].url = url}

\* The digest of the page a save step fetched: the step is taken at instant
\* now for the source being scanned.
FetchedHash(e) ==
    calculate_content_hash([url |-> e.url, source_name |-> source,
                            content |-> e.content, scraped_at |-> now])

\* C1: classify looks the document up by url and returns exactly one of three
\* outcomes: new, with no id and no previous hash, when no record has the url;
\* unchanged, with the record's id, when the stored content_hash equals the
\* new one; otherwise changed, with the record's id and the stored hash.
C1_Classify ==
    [][ev'.op = "save" =>
        /\ ev'.c.status \in {"new", "unchanged", "changed"}
        /\ DocsOf(ev'.url) = {} =>
                ev'.c = [status |-> "new", existing_id |-> None, previous_hash |-> None]
        /\ \A i \in DocsOf(ev'.url) :
            /\ docs[i].content_hash = FetchedHash(ev') =>
                    ev'.c.status = "unchanged" /\ ev'.c.existing_id = i
            /\ docs[i].content_hash # FetchedHash(ev') =>
                    ev'.c = [status |-> "changed", existing_id |-> i,
                             previous_hash |-> docs[i].content_hash]]_vars

\* A page was classified as changed while another url's document is stored too.
C1_Witness ==
    /\ Saved /\ ev.c.status = "changed"
    /\ \E i \in DocIds : docs[i].url # ev.url

\* C2: once a scan of a source has stored the document of a url, a later scan
\* of that source that fetches the same page content classifies it as
\* unchanged, never as changed or new.
C2_RescanUnchanged ==
    [][ev'.op = "save" =>
        \A i \in DocsOf(ev'.url) :
            docs[i].source_name = source /\ docs[i].raw_content.content = ev'.content
                => ev'.c.status = "unchanged"]_vars

\* The documents a sweep step looks at: the active ones of the swept source
\* whose url the scan did not observe.
Unobserved(e) ==
    {i \in DocIds : /\ docs[i].is_active
                    /\ docs[i].source_name = e.source
                    /\ docs[i].url \notin e.seen}

\* C3: in the sweep of a source, an active document of the source whose url
\* was not observed is marked is_active = false, processing_status = removed
\* iff at least SAFETY_BUFFER_DAYS whole days have passed since its
\* last_seen_at (and the backend accepts the update): unseen for 6 days it
\* stays active, unseen for 7 days or more it becomes inactive.
C3_RemovalBuffer ==
    [][ev'.op = "sweep" =>
        \A i \in Unobserved(ev') :
            /\ (~docs'[i].is_active /\ docs'[i].processing_status = "removed")
                    <=> (/\ now - docs[i].last_seen_at >= SAFETY_BUFFER_DAYS * TicksPerDay
                         /\ i \notin ev'.failed)
            /\ docs'[i].is_active \/ docs'[i].processing_status = "removed"
            /\ now - docs[i].last_seen_at < SAFETY_BUFFER_DAYS * TicksPerDay => docs'[i] = docs[i]]_vars

\* A sweep has just marked a document unseen for seven days, and left active
\* an unobserved one seen since.
C3_Witness ==
    /\ ev.op = "sweep"
    /\ \E i, j \in DocIds :
        /\ ~docs[i].is_active /\ docs[i].processing_status = "removed"
        /\ docs[i].last_checked_at = now
        /\ now - docs[i].last_seen_at = SAFETY_BUFFER_DAYS * TicksPerDay
        /\ docs[j].is_active /\ docs[j].source_name = ev.source /\ docs[j].url \notin ev.seen

\* C4: with the runs one week apart, a document that was observed and
\* stamped in the previous run and is not observed in this one (the listing
\* fetch failed, or the listing came back empty or partial) is not marked
\* inactive by this run's sweep; only a second miss in a row can remove it.
C4_OneMissTolerated ==
    [][ev'.op = "sweep" =>
        \A i \in DocIds :
            docs[i].is_active /\ docs[i].last_seen_at = now - WEEK => docs'[i].is_active]_vars

\* The step just taken reconciled a flagged document.
Updated == ev.op = "update"

\* The entries the step created.
Created == DOMAIN recs' \ DOMAIN recs

\* The fields detect_changes compares.
AllowList == {significant_fields[k][1] : k \in DOMAIN significant_fields}

\* C5: a reconciliation with a significant change gives the document a
\* record whose version is one more than its predecessor's, whose number no
\* other record of the document carries, and whose predecessor no other
\* record points to: the numbers are consecutive from 1, none repeated, and
\* the chain of previous_version_id has no fork.
C5_LinearChain ==
    [][ev'.op = "update" /\ ev'.branch = "changed" =>
        \A r \in Created :
            /\ recs'[r].previous_version_id \in DOMAIN recs
            /\ recs'[r].version = recs[recs'[r].previous_version_id].version + 1
            /\ \A q \in DOMAIN recs :
                /\ recs[q].scraped_data_id = recs'[r].scraped_data_id
                        => recs[q].version # recs'[r].version
                /\ recs[q].previous_version_id # recs'[r].previous_version_id]_vars

\* C6: a reconciliation that detects a significant change against the entry
\* the document points to, in a run that writes and whose create the backend
\* accepts, adds exactly one entry: the extracted fields, version the old
\* entry's plus one, previous_version_id the old entry's id, change_summary
\* the detected summary (not empty), requires_review true; no other entry
\* changes.
C6_NewVersion ==
    [][ev'.op = "update" /\ ev'.branch = "changed" /\ ~ev'.dry /\ ev'.okC =>
        LET old == docs[ev'.id].foerdermittel_id
            n == Len(recs) + 1
        IN  /\ Len(recs') = n
            /\ \A r \in DOMAIN recs : recs'[r] = recs[r]
            /\ recs'[n].version = recs[old].version + 1
            /\ recs'[n].previous_version_id = old
            /\ recs'[n].change_summary = detect_changes(recs[old], ev'.data)
            /\ recs'[n].change_summary # <<>>
            /\ recs'[n].requires_review = TRUE
            /\ \A f \in DOMAIN ev'.data \ {"status"} : recs'[n][f] = ev'.data[f]]_vars

\* A third version was created: it follows version 2 and reports the title.
C6_Witness ==
    /\ Updated /\ ev.branch = "changed" /\ ~ev.dry /\ ev.okC
    /\ recs[Len(recs)].version = 3
    /\ recs[recs[Len(recs)].previous_version_id].version = 2
    /\ recs[Len(recs)].change_summary = <<"Title changed">>
    /\ recs[Len(recs)].requires_review

\* C7: every entry the analyzer creates, a first version or a later one, has
\* status draft when created, whatever the status of its predecessor.
C7_DraftReset ==
    [][\A r \in Created : recs'[r].status = "draft"]_vars

\* A new version of a published entry was created, as a draft.
C7_Witness ==
    /\ Updated /\ ev.branch = "changed" /\ ~ev.dry /\ ev.okC
    /\ recs[recs[Len(recs)].previous_version_id].status = "published"
    /\ recs[Len(recs)].status = "draft"

\* C8: when the data extracted for a flagged document equals the entry it
\* points to on every allow-listed field, the reconciliation creates no entry,
\* leaves the pointer alone and changes at most processed and
\* processing_status (to completed) of the document; when the title differs,
\* a run that writes and whose create is accepted adds a new version.
C8_NoOpStability ==
    [][ev'.op = "update" /\ ev'.branch \in {"no_change", "changed"} =>
        LET d == ev'.id
            old == recs[docs[d].foerdermittel_id]
        IN  /\ (\A f \in AllowList : old[f] = ev'.data[f]) =>
                    /\ recs' = recs
                    /\ docs'[d].foerdermittel_id = docs[d].foerdermittel_id
                    /\ ~ev'.dry /\ ev'.okA =>
                            docs' = [docs EXCEPT ![d].processed = TRUE,
                                                 ![d].processing_status = "completed"]
            /\ old.title # ev'.data.title /\ ~ev'.dry /\ ev'.okC =>
                    /\ Len(recs') = Len(recs) + 1
                    /\ recs'[Len(recs')].previous_version_id = docs[d].foerdermittel_id]_vars

\* A flagged document whose extraction differs from its entry in the
\* description only was completed.
C8_Witness ==
    /\ Updated /\ ev.branch = "no_change" /\ ~ev.dry /\ ev.okA
    /\ docs[ev.id].processing_status = "completed"
    /\ docs[ev.id].foerdermittel_id # None
    /\ recs[docs[ev.id].foerdermittel_id].description # ev.data.description

\* C9: saving a document classified unchanged modifies only check_count (+1),
\* last_checked_at and last_seen_at of its record; every other field, every
\* other record and the versioned records are left as they were.
C9_UnchangedFrame ==
    [][ev'.op = "save" /\ ev'.c.status = "unchanged" =>
        LET i == ev'.c.existing_id IN
        /\ recs' = recs
        /\ DOMAIN docs' = DOMAIN docs
        /\ \A j \in DocIds : j # i => docs'[j] = docs[j]
        /\ \A f \in DOMAIN docs[i] \ {"check_count", "last_checked_at", "last_seen_at"} :
                docs'[i][f] = docs[i][f]
        /\ ev'.ok => /\ docs'[i].check_count = docs[i].check_count + 1
                     /\ docs'[i].last_checked_at = now
                     /\ docs'[i].last_seen_at = now
        /\ ~ev'.ok => docs' = docs]_vars

\* An unchanged page was saved, the document having been flagged before.
C9_Witness ==
    /\ Saved /\ ev.c.status = "unchanged" /\ ev.ok
    /\ docs[ev.c.existing_id].processing_status = "pending_update"
    /\ docs[ev.c.existing_id].check_count > 2

\* C10: a successful save of a changed document sets content_hash to the
\* digest of the page just fetched, previous_content_hash to the hash stored
\* before and processing_status to pending_update; after every successful
\* save the stored content_hash is the digest of the page fetched in the step.
C10_HashFollowsFetch ==
    [][ev'.op = "save" /\ ev'.ok =>
        LET i == IF ev'.c.status = "new" THEN Len(docs') ELSE ev'.c.existing_id IN
        /\ i \in DOMAIN docs'
        /\ docs'[i].url = ev'.url
        /\ docs'[i].content_hash = FetchedHash(ev')
        /\ ev'.c.status = "changed" =>
            /\ docs'[i].previous_content_hash = docs[i].content_hash
            /\ docs'[i].previous_content_hash # docs'[i].content_hash
            /\ docs'[i].processing_status = "pending_update"]_vars

\* A changed page was saved over a document that had changed before.
C10_Witness ==
    /\ Saved /\ ev.c.status = "changed" /\ ev.ok
    /\ docs[ev.c.existing_id].previous_content_hash # None
    /\ docs[ev.c.existing_id].check_count > 2

(***************************************************************************)
(* The specifications.                                                     *)
(***************************************************************************)

\* C11: a document is created with check_count 1; no step lowers a stored
\* check_count; a saved sighting classified unchanged or changed raises the
\* document's count by exactly 1, and nothing else changes a count.
C11_CheckCountMonotone ==
    [][/\ \A i \in DocIds : i \in DOMAIN docs' /\ docs'[i].check_count >= docs[i].check_count
       /\ \A i \in DOMAIN docs' \ DocIds : docs'[i].check_count = 1
       /\ \A i \in DocIds :
            docs'[i].check_count =
                IF /\ ev'.op = "save" /\ ev'.ok
                   /\ ev'.c.status \in {"unchanged", "changed"} /\ ev'.c.existing_id = i
                THEN docs[i].check_count + 1
                ELSE docs[i].check_count]_vars

\* The first re-fetch of a document found it unchanged: its count is 2.
C11_Witness ==
    /\ Saved /\ ev.ok /\ ev.c.status = "unchanged"
    /\ docs[ev.c.existing_id].check_count = 2
    /\ docs[ev.c.existing_id].processing_status = "pending"

\* C12: when the read of the stored item by url fails while a page is being
\* classified, the page gets no classification and the step creates no
\* document and updates none (no entry either); the url is left for the next
\* run.
C12_ReadFailureWritesNothing ==
    [][ev'.op = "read_failed" =>
        /\ "c" \notin DOMAIN ev'
        /\ docs' = docs
        /\ recs' = recs]_vars

\* The read failed for a url whose document is stored, while another url's
\* document is stored too.
C12_Witness ==
    /\ ev.op = "read_failed" /\ ev.caught
    /\ DocsOf(ev.url) # {}
    /\ \E i \in DocIds : docs[i].url # ev.url
    /\ pc = "scan"

\* C13: after every step the collection of documents holds at most one
\* document per source and url, and a step adds a document only for a url
\* that had none.
C13_UrlUnique ==
    [][/\ \A i, j \in DOMAIN docs' :
            docs'[i].url = docs'[j].url /\ docs'[i].source_name = docs'[j].source_name => i = j
       /\ \A i \in DOMAIN docs' \ DocIds : DocsOf(docs'[i].url) = {}]_vars

\* A page already stored was saved again, changed, with both pages stored.
C13_Witness ==
    /\ Saved /\ ev.ok /\ ev.c.status = "changed"
    /\ Cardinality(DocsOf(ev.url)) = 1
    /\ Len(docs) = NumUrls
    /\ docs[ev.c.existing_id].check_count = 2

\* C14: a scan starts with no url observed; while it lasts each step takes
\* the next candidate url, and only that one, from the candidates to the urls
\* observed; the sweep runs only when no candidate is left and is given the
\* urls observed, which are then all the candidates of the scan.  For one url,
\* the page classified is the page fetched in that step and it is classified
\* against the collection as it is before the save.
C14_SweepAfterAllUrls ==
    [][/\ ev'.op = "scan_started" => seen_urls' = {} /\ pc' = "scan"
       /\ pc = "scan" /\ pc' = "scan" =>
            /\ todo # <<>>
            /\ todo' = Tail(todo)
            /\ seen_urls' = seen_urls \cup {Head(todo)}
       /\ ev'.op = "sweep" =>
            /\ pc = "scan" /\ todo = <<>>
            /\ ev'.seen = seen_urls
            /\ ev'.source = source
       /\ ev'.op = "save" =>
            /\ ev'.url = Head(todo)
            /\ ev'.c.status = "new" <=> DocsOf(ev'.url) = {}
            /\ ev'.c.status = "unchanged" =>
                    docs[ev'.c.existing_id].content_hash = FetchedHash(ev')
            /\ ev'.ok /\ ev'.c.status = "new" =>
                    docs'[Len(docs')].content_hash = FetchedHash(ev')]_vars

\* A sweep was given every page of the listing, both saved in this scan.
C14_Witness ==
    /\ ev.op = "sweep" /\ ev.seen = Urls /\ ev.source = "s1"
    /\ \A u \in Urls : \E i \in DocIds : docs[i].url = u /\ docs[i].last_seen_at = now
    /\ now > 0

\* C15: when the flagged document has no pointer, or the entry it points to
\* cannot be read, a reconciliation whose writes are accepted (not a dry run)
\* creates the extracted data as one fresh entry: version 1, no
\* previous_version_id, no change_summary; it points the document to that
\* entry, marks it processed and completed, and returns True.
C15_FreshRecordWhenNoPrior ==
    [][/\ ev'.op = "update" /\ ev'.branch \in {"no_pointer", "old_missing"}
       /\ ~ev'.dry /\ ev'.okC /\ ev'.okA
       =>
        LET n == Len(recs) + 1
            d == ev'.id
        IN  /\ Len(recs') = n
            /\ \A r \in DOMAIN recs : recs'[r] = recs[r]
            /\ \A f \in DOMAIN ev'.data : recs'[n][f] = ev'.data[f]
            /\ recs'[n].previous_version_id = None
            /\ recs'[n].version = 1
            /\ recs'[n].change_summary = <<>>
            /\ docs' = [docs EXCEPT ![d].foerdermittel_id = n,
                                    ![d].processed = TRUE,
                                    ![d].processing_status = "completed"]
            /\ ev'.ret = TRUE]_vars

\* The entry a document pointed to could not be read: the document now points
\* to a fresh entry, and the entry it pointed to is still there.
C15_Witness ==
    /\ Updated /\ ev.branch = "old_missing" /\ ~ev.dry /\ ev.okC /\ ev.okA /\ ev.ret
    /\ docs[ev.id].foerdermittel_id = Len(recs)
    /\ recs[Len(recs)].previous_version_id = None
    /\ \E r \in RecIds : r # Len(recs) /\ recs[r].scraped_data_id = ev.id

\* C16: when the extraction fails for a pending or pending_update document
\* outside a dry run, no entry is created or changed and the document keeps its
\* pointer; when the backend accepts the update the document becomes failed
\* with the extraction's error message and nothing else of it changes; when it
\* refuses, the document is left as it was or is failed with the error's text.
C16_ExtractionFailure ==
    [][/\ ev'.op \in {"pending", "update"} /\ ev'.branch = "no_data" /\ ~ev'.dry
       =>
        LET d == ev'.id IN
        /\ recs' = recs
        /\ \A i \in DocIds \ {d} : docs'[i] = docs[i]
        /\ Len(docs') = Len(docs)
        /\ docs'[d].foerdermittel_id = docs[d].foerdermittel_id
        /\ ev'.okA => docs' = [docs EXCEPT ![d].processing_status = "failed",
                                          ![d].error_message = "extract_failed"]
        /\ docs'[d] # docs[d] =>
                /\ docs'[d].processing_status = "failed"
                /\ docs'[d].error_message # "None"]_vars

\* The extraction failed for a flagged document that points to an entry.
C16_Witness ==
    /\ Updated /\ ev.branch = "no_data" /\ ~ev.dry /\ ev.okA
    /\ docs[ev.id].processing_status = "failed"
    /\ docs[ev.id].error_message = "extract_failed"
    /\ docs[ev.id].foerdermittel_id # None

\* C17: an error at one url (its fetch fails, the read by url raises, the
\* save is refused) is caught at that url: the scan of the source goes on with
\* the urls that remain, the sweep still to come.
C17_ErrorIsolation ==
    [][\/ ev'.op \in {"fetch_failed", "read_failed"}
       \/ ev'.op = "save" /\ ~ev'.ok
       =>
        /\ pc' = "scan"
        /\ source' = source
        /\ todo' = Tail(todo)]_vars

\* C18: no step of a scan, a sweep or an analyzer run removes an entry or
\* changes a field of an entry that exists: entries are only added.  The one
\* change an entry sees is its status, moved by an editor.
C18_HistoryPreserved ==
    [][/\ Len(recs') >= Len(recs)
       /\ \A r \in DOMAIN recs :
            /\ DOMAIN recs'[r] = DOMAIN recs[r]
            /\ \A f \in DOMAIN recs[r] \ {"status"} : recs'[r][f] = recs[r][f]
            /\ ev'.op # "publish" => recs'[r] = recs[r]]_vars

\* A second version was created and the first is as it was created.
C18_Witness ==
    /\ Updated /\ ev.branch = "changed" /\ ~ev.dry /\ ev.okC
    /\ Len(recs) = 2
    /\ recs[2].previous_version_id = 1
    /\ recs[1].version = 1 /\ recs[1].change_summary = <<>> /\ ~recs[1].requires_review
    /\ recs[1].title # recs[2].title

\* C19: after a reconciliation that created a new version, the document points
\* to the entry created, so no entry is left without a document pointing to it
\* or a successor naming it.
C19_PointerFollowsNewVersion ==
    [][ev'.op = "update" /\ ev'.branch = "changed" /\ Created # {} =>
        /\ docs'[ev'.id].foerdermittel_id \in Created
        /\ \A r \in DOMAIN recs' :
            \/ \E d \in DOMAIN docs' : docs'[d].foerdermittel_id = r
            \/ \E q \in DOMAIN recs' : recs'[q].previous_version_id = r]_vars

\* C20: a step in which the fetch of a url's page fails writes no field of
\* any stored document (last_seen_at and check_count included), creates
\* nothing, and leaves the page cache as it was; the fetch is attempted, and
\* so can fail, only when the cache holds no fresh entry for the url.
C20_FetchFailureWritesNothing ==
    [][ev'.op = "fetch_failed" =>
        /\ docs' = docs
        /\ recs' = recs
        /\ url_cache' = url_cache
        /\ url_cache[ev'.url] = NoEntry]_vars

\* The fetch failed for a page stored in an earlier run, whose cache entry has
\* expired or was cleared, while an entry is cached for the other page.
C20_Witness ==
    /\ ev.op = "fetch_failed"
    /\ \E i \in DocsOf(ev.url) : docs[i].last_seen_at < now /\ docs[i].is_active
    /\ url_cache[ev.url] = NoEntry
    /\ \E u \in Urls \ {ev.url} : url_cache[u] # NoEntry

\* C21 as stated: a backend call makes at most two HTTP attempts, the second
\* only after a first response 401 and exactly one re-authentication with the
\* backend, and a 401 on the second attempt is a failure of the call.
C21_OneReauthentication ==
    /\ Len(http.responses) <= 2
    /\ Len(http.responses) = 2 =>
        /\ http.responses[1] = 401
        /\ http.auth_requests = 1
    /\ (http.phase = "done" /\ Len(http.responses) = 2 /\ http.responses[2] = 401) =>
        http.outcome = failure(http.method)

\* C21: a backend call makes at most two HTTP attempts; the second is made
\* only after a first response 401 and exactly one call of login(), which
\* sends one authentication request when the client holds email and password
\* and none when it holds a static token; a second attempt that is not
\* answered with success, a 401 included, ends the call as a failure with no
\* further attempt.
C21_TwoAttempts ==
    /\ Len(http.responses) <= 2
    /\ (http.phase = "retry" \/ Len(http.responses) = 2) =>
        /\ http.responses[1] = 401
        /\ http.logins = 1
        /\ http.auth_requests = (IF http.static_token THEN 0 ELSE 1)
    /\ Len(http.responses) = 2 => http.phase = "done"
    /\ (http.phase = "done" /\ Len(http.responses) = 2 /\ http.responses[2] # 200) =>
        http.outcome = failure(http.method)

\* A call that re-authenticated, was answered 401 again and raised.
C21_Witness ==
    /\ http.phase = "done"
    /\ http.responses = <<401, 401>>
    /\ ~http.static_token
    /\ http.auth_requests = 1
    /\ http.outcome = "raised"

\* C22: a dry run of the analyzer writes nothing: no step of a run started
\* with dry-run enabled, whatever the extraction gives and whichever branch
\* the item takes, changes any item of either collection.
C22_DryRunWritesNothing ==
    [][((pc \in {"pending", "updates"} /\ dry_run)
            \/ (ev'.op = "analyzer_started" /\ ev'.dry)) =>
        (docs' = docs /\ recs' = recs)]_vars

\* A dry run met a significant change of a linked item and left it flagged.
C22_Witness ==
    /\ ev.op = "update" /\ ev.dry
    /\ ev.branch = "changed"
    /\ docs[ev.id].processing_status = "pending_update"
    /\ pc = "updates"

\* The writes of the branch the item took were all accepted by the backend.
BranchAccepted(e) ==
    IF e.branch \in {"no_data", "duplicate", "no_change"} THEN e.okA
    ELSE IF e.branch = "error" THEN FALSE
    ELSE e.okC /\ e.okA

ChangedFields(old_data, new_data) ==
    {k \in DOMAIN significant_fields :
        old_data[significant_fields[k][1]] # new_data[significant_fields[k][1]]}

\* The position of a label in the allow-list.
LabelIndex(label) ==
    CHOOSE k \in DOMAIN significant_fields : significant_fields[k][2] = label

RECURSIVE TotalLen(_)
TotalLen(changes) ==
    IF changes = <<>> THEN 0 ELSE Len(Head(changes)) + TotalLen(Tail(changes))

\* C25: detect_changes returns a summary exactly when a field of the
\* allow-list differs between old and new (two nulls do not differ); the
\* summary lists the label of every changed field and of no other, once
\* each, in the order of the allow-list, joined by "; " with nothing added;
\* with no such field it returns no summary.
C25_DetectChanges ==
    ev.op = "detected" =>
        LET changed == ChangedFields(ev.old_data, ev.new_data) IN
        /\ ev.none <=> changed = {}
        /\ Len(ev.changes) = Cardinality(changed)
        /\ \A k \in DOMAIN significant_fields :
            (k \in changed) <=>
                (\E i \in DOMAIN ev.changes : ev.changes[i] = significant_fields[k][2])
        /\ \A i, j \in DOMAIN ev.changes :
            i < j => LabelIndex(ev.changes[i]) < LabelIndex(ev.changes[j])
        /\ ~ev.none => Len(ev.text) = TotalLen(ev.changes) + 2 * (Len(ev.changes) - 1)

\* A minimum amount that was null and a relevance flag that flipped, with a
\* description that changed as well.
C25_Witness ==
    /\ ev.op = "detected"
    /\ ev.old_data.funding_amount_min = None /\ ev.new_data.funding_amount_min = 1
    /\ ev.old_data.is_relevant # ev.new_data.is_relevant
    /\ ev.old_data.description # ev.new_data.description
    /\ ev.text = "Min funding amount changed; Relevance status changed"

\* C26: the sweep of a source changes only the documents that are active,
\* belong to the source, were not observed in the scan and were last seen at
\* least SAFETY_BUFFER_DAYS whole days ago; such a document, when the backend
\* accepts the update, differs from what it was in is_active = false,
\* processing_status = removed and last_checked_at = now and in nothing else.
\* Every other document (observed, of another source, inactive, within the
\* buffer) keeps every field, last_checked_at included, and no entry changes.
C26_SweepFrame ==
    [][ev'.op = "sweep" =>
        /\ recs' = recs
        /\ Len(docs') = Len(docs)
        /\ \A i \in DocIds :
            IF /\ docs[i].is_active
               /\ docs[i].source_name = ev'.source
               /\ docs[i].url \notin ev'.seen
               /\ now - docs[i].last_seen_at >= SAFETY_BUFFER_DAYS * TicksPerDay
               /\ i \notin ev'.failed
            THEN docs'[i] = [docs[i] EXCEPT !.is_active = FALSE,
                                            !.processing_status = "removed",
                                            !.last_checked_at = now]
            ELSE docs'[i] = docs[i]]_vars

\* A sweep marked one document and left alone a document of the other source
\* that was not observed either and is as long unseen.
C26_Witness ==
    /\ ev.op = "sweep"
    /\ \E i, j \in DocIds :
        /\ docs[i].source_name = ev.source
        /\ ~docs[i].is_active /\ docs[i].last_checked_at = now
        /\ docs[i].last_checked_at # docs[i].last_seen_at
        /\ docs[j].source_name # ev.source
        /\ docs[j].is_active /\ docs[j].url \notin ev.seen
        /\ now - docs[j].last_seen_at >= SAFETY_BUFFER_DAYS * TicksPerDay
        /\ docs[j].last_checked_at # now

\* C27: in the sweep of a source, an active document of the source that was
\* not observed and whose last_seen_at is missing or cannot be parsed counts
\* as unseen for UNPARSEABLE_DAYS days: it is marked removed by that sweep
\* (when the backend accepts the update), however recently it was created or
\* checked.
C27_UnreadableLastSeen ==
    [][ev'.op = "sweep" =>
        \A i \in Unobserved(ev') :
            (docs[i].last_seen_at \in {None, Unparseable} /\ i \notin ev'.failed) =>
                docs'[i] = [docs[i] EXCEPT !.is_active = FALSE,
                                           !.processing_status = "removed",
                                           !.last_checked_at = now]]_vars

\* A document created and checked at this very instant was marked removed
\* because its last_seen_at cannot be parsed.
C27_Witness ==
    /\ ev.op = "sweep"
    /\ \E i \in DocIds :
        /\ docs[i].last_seen_at = Unparseable
        /\ docs[i].scraped_at = now
        /\ ~docs[i].is_active /\ docs[i].processing_status = "removed"
        /\ docs[i].last_checked_at = now
        /\ docs[i].url \notin ev.seen

\* C28: get(url) returns the content cached for the url iff the cache has an
\* entry for it that is at most max_age old; an older entry is deleted by the
\* get, which then returns nothing, and a get of a url without entry changes
\* nothing.  set(url, c) makes the entry (c, now) and touches no other entry;
\* clear empties the cache; a cache loaded from the file holds the entries of
\* the last dump that succeeded, less the expired ones.  No entry is stamped
\* later than the clock, so what get returns was set at most max_age ago.
C28_PageCache ==
    [][/\ ev'.op = "cache_get" =>
            LET entry == url_cache[ev'.url] IN
            /\ cache_file' = cache_file
            /\ IF /\ entry # NoEntry
                  /\ (now - entry.timestamp) * 24 <= MAX_AGE_HOURS * TicksPerDay
               THEN ev'.content = entry.content /\ url_cache' = url_cache
               ELSE /\ ev'.content = None
                    /\ url_cache' = [url_cache EXCEPT ![ev'.url] = NoEntry]
       /\ ev'.op = "cache_set" =>
            /\ url_cache' = [url_cache EXCEPT ![ev'.url] =
                                [content |-> ev'.content, timestamp |-> now]]
            /\ ev'.saved => cache_file' = url_cache'
       /\ ev'.op = "cache_clear" => \A u \in Urls : url_cache'[u] = NoEntry
       /\ (ev'.op = "cache_load" /\ ev'.loaded) =>
            \A u \in Urls :
                url_cache'[u] =
                    IF /\ cache_file[u] # NoEntry
                       /\ (now - cache_file[u].timestamp) * 24 <= MAX_AGE_HOURS * TicksPerDay
                    THEN cache_file[u] ELSE NoEntry
       /\ \A u \in Urls : url_cache'[u] # NoEntry => url_cache'[u].timestamp <= now'
      ]_vars

\* A get returned the content of an entry exactly max_age old, which is the
\* entry the file holds.
C28_Witness ==
    /\ ev.op = "cache_get"
    /\ ev.content # None
    /\ url_cache[ev.url].content = ev.content
    /\ (now - url_cache[ev.url].timestamp) * 24 = MAX_AGE_HOURS * TicksPerDay
    /\ cache_file[ev.url] = url_cache[ev.url]

\* C29: in every reachable state a document is inactive exactly when its
\* processing_status is removed.
C29_InactiveIffRemoved ==
    \A i \in DocIds : (~docs[i].is_active) <=> (docs[i].processing_status = "removed")

\* C30: every url the listing of the source shows in a scan is in the set of
\* observed urls the sweep of that scan receives, whatever the limit on the
\* programs per source, so that the sweep marks no document that is listed.
C30_ObservedComplete ==
    [][ev'.op = "sweep" =>
        /\ listed \subseteq ev'.seen
        /\ \A i \in DocIds :
            (docs[i].url \in listed /\ docs[i].is_active) => docs'[i].is_active]_vars

\* The monitoring pipeline of one page: scraper runs, analyzer runs and
\* reviews, all at one reading of the clock.
Next ==
    \/ StartScanOne
    \/ ProcessUrlFetchFailed
    \/ ProcessUrlReadFailed
    \/ ProcessUrl
    \/ Sweep
    \/ StartAnalyzer
    \/ ProcessPending
    \/ FetchUpdates
    \/ ProcessUpdate
    \/ FinishAnalyzer
    \/ Publish

Spec == Init /\ [][Next]_vars

\* The scraper alone, with runs one tick apart.
NextClock ==
    \/ StartScan
    \/ ProcessUrlFetchFailed
    \/ ProcessUrlReadFailed
    \/ ProcessUrl
    \/ Sweep
    \/ Tick

SpecClock == Init /\ [][NextClock]_vars

\* A week passes between two runs.
Week ==
    /\ pc = "idle"
    /\ now + WEEK <= MaxWeeks * WEEK
    /\ now' = now + WEEK
    /\ ev' = [op |-> "tick"]
    /\ UNCHANGED <<docs, recs, pc, source, todo, seen_urls, dry_run, items, url_cache, http, listed, cache_file>>

\* The scraper alone, run on a weekly schedule over pages that are never edited.
NextWeekly ==
    \/ StartScan
    \/ ProcessUrlFetchFailed
    \/ ProcessUrlReadFailedSame
    \/ ProcessUrlSame
    \/ Sweep
    \/ Week

SpecWeekly == Init /\ [][NextWeekly]_vars

\* The scraper alone, run at instant 0 and again from six days later on, over
\* pages that are never edited.
NextSweep ==
    \/ StartScan
    \/ ProcessUrlFetchFailed
    \/ ProcessUrlReadFailedSame
    \/ ProcessUrlSame
    \/ Sweep
    \/ Sleep
    \/ LateTick

SpecSweep == Init /\ [][NextSweep]_vars

\* The scraper alone on the aktion_mensch source.
NextMensch ==
    \/ StartScanMensch
    \/ ProcessUrl
    \/ ProcessUrlReadFailed
    \/ Sweep
    \/ Tick

SpecMensch == Init /\ [][NextMensch]_vars

\* The scraper alone on one source, run weekly over pages that are never
\* edited, with the page cache kept or cleared between runs.
NextCache ==
    \/ StartScanCached
    \/ ProcessUrlFetchFailed
    \/ ProcessUrlReadFailedSame
    \/ ProcessUrlSame
    \/ Sweep
    \/ Week

SpecCache == Init /\ [][NextCache]_vars


\* The backend client alone: calls, their attempts and the login between them.
NextClient ==
    \/ ClientCall
    \/ FirstAttempt
    \/ login
    \/ SecondAttempt

SpecClient == Init /\ [][NextClient]_vars

\* detect_changes alone, applied to every pair of entries.
NextDetect == DetectChanges

SpecDetect == InitDetect /\ [][NextDetect]_vars

\* Scans of a collection that holds an item without a readable last_seen_at.
NextLegacy ==
    \/ StartScan
    \/ ProcessUrlFetchFailed
    \/ ProcessUrlReadFailedSame
    \/ ProcessUrlSame
    \/ Sweep
    \/ Tick

SpecLegacy == InitLegacy /\ [][NextLegacy]_vars

\* The page cache alone: set, get, clear and the load of the file, with the
\* clock advancing by weeks.
NextPageCache ==
    \/ CacheLoad
    \/ CacheGet
    \/ CacheSet
    \/ CacheClear
    \/ Week

SpecPageCache == Init /\ [][NextPageCache]_vars

\* Scans with a limit on the programs per source, a week and more apart.
NextLimit ==
    \/ StartScanLimited
    \/ ProcessUrlFetchFailed
    \/ ProcessUrlReadFailedSame
    \/ ProcessUrlSame
    \/ Sweep
    \/ Sleep
    \/ LateTick

SpecLimit == Init /\ [][NextLimit]_vars

=============================================================================
